---- MODULE Spec2Model ----
(***************************************************************************)
(* cpython-json: conversion between native Python objects (PyObject) and   *)
(* serde_json::Value, modelled from src/src/lib.rs.                         *)
(*                                                                         *)
(* Native values are records tagged by `py`, JSON values records tagged by *)
(* `js`.  Integers are arbitrary-precision on the Python side and 64 bits  *)
(* wide on the JSON side; they are kept as a sign and a sequence of decimal*)
(* digits so that the 64-bit range tests are made at their real width.     *)
(***************************************************************************)
EXTENDS Integers, Sequences, FiniteSets, TLC

VARIABLES op, arg, ret, calls, origin, hostRejects

vars == <<op, arg, ret, calls, origin, hostRejects>>

(***************************************************************************)
(* Bounds of the explored inputs.                                          *)
(***************************************************************************)
\* longest native list / tuple / mapping and JSON Array / Object drawn as input
MaxLen == 2
\* deepest nesting of containers the caller builds around a drawn input
MaxDepth == 2

(***************************************************************************)
(* Result<T, E> and Option<T>.                                             *)
(***************************************************************************)
Ok(v) == [ok |-> TRUE, val |-> v]

Err(e) == [ok |-> FALSE, err |-> e]

Some(v) == <<v>>

None == <<>>

(***************************************************************************)
(* Decimal magnitudes.                                                     *)
(***************************************************************************)
DigitChar(d) ==
    CASE d = 0 -> "0" [] d = 1 -> "1" [] d = 2 -> "2" [] d = 3 -> "3" [] d = 4 -> "4"
      [] d = 5 -> "5" [] d = 6 -> "6" [] d = 7 -> "7" [] d = 8 -> "8" [] d = 9 -> "9"

RECURSIVE DigitsText(_)
DigitsText(ds) == IF ds = <<>> THEN "" ELSE DigitChar(Head(ds)) \o DigitsText(Tail(ds))

RECURSIVE LexLE(_, _)
LexLE(a, b) ==
    IF a = <<>> THEN TRUE
    ELSE IF Head(a) # Head(b) THEN Head(a) < Head(b)
    ELSE LexLE(Tail(a), Tail(b))

\* a <= b for magnitudes written without leading zeros
MagLE(a, b) == Len(a) < Len(b) \/ (Len(a) = Len(b) /\ LexLE(a, b))

\* u64::MAX = 2^64 - 1
U64_MAX == <<1,8,4,4,6,7,4,4,0,7,3,7,0,9,5,5,1,6,1,5>>

\* i64::MAX = 2^63 - 1
I64_MAX == <<9,2,2,3,3,7,2,0,3,6,8,5,4,7,7,5,8,0,7>>

\* |i64::MIN| = 2^63
I64_MIN_MAG == <<9,2,2,3,3,7,2,0,3,6,8,5,4,7,7,5,8,0,8>>

\* 2^64, the first integer no 64-bit type holds
TWO_64 == <<1,8,4,4,6,7,4,4,0,7,3,7,0,9,5,5,1,6,1,6>>

\* 2^63 + 1, the first magnitude no negative i64 has
I64_MIN_MAG_1 == <<9,2,2,3,3,7,2,0,3,6,8,5,4,7,7,5,8,0,9>>

(***************************************************************************)
(* Native values (PyObject).                                               *)
(***************************************************************************)
PyNone == [py |-> "NoneType"]

PyBool(b) == [py |-> "bool", b |-> b]

PyInt(neg, mag) == [py |-> "int", neg |-> neg, mag |-> mag]

\* f64: finite (sign, integral digits, and whether a half is added), infinite, or NaN
F64(neg, whole, half) == [c |-> "finite", neg |-> neg, whole |-> whole, half |-> half]

F64_INF(neg) == [c |-> "inf", neg |-> neg]

F64_NAN == [c |-> "nan"]

PyFloat(f) == [py |-> "float", f |-> f]

\* a text object; utf8 tells whether the host can hand its content out as UTF-8
PyStr(s, utf8) == [py |-> "str", s |-> s, utf8 |-> utf8]

PyList(elems) == [py |-> "list", elems |-> elems]

PyTuple(elems) == [py |-> "tuple", elems |-> elems]

\* a mapping is the sequence of its (key, value) items in the host's iteration order
PyDict(items) == [py |-> "dict", items |-> items]

\* any other object: its type name and what repr() and str() of it give
PyOther(type_name, repr, str) ==
    [py |-> "object", type_name |-> type_name, repr |-> repr, str |-> str]

\* a host exception
PyErr(ptype, pvalue, ptraceback) ==
    [ptype |-> ptype, pvalue |-> pvalue, ptraceback |-> ptraceback]

(***************************************************************************)
(* JSON values (serde_json::Value).                                        *)
(***************************************************************************)
Null == [js |-> "Null"]

Bool(b) == [js |-> "Bool", b |-> b]

\* serde_json::Number: PosInt(u64), NegInt(i64, always negative) or Float(f64, finite)
PosInt(mag) == [k |-> "PosInt", mag |-> mag]

NegInt(mag) == [k |-> "NegInt", mag |-> mag]

Float(f) == [k |-> "Float", f |-> f]

Number(n) == [js |-> "Number", n |-> n]

String(s) == [js |-> "String", s |-> s]

Array(vec) == [js |-> "Array", vec |-> vec]

\* map: the (key, value) entries of a serde_json::Map, ordered by key, keys unique
Object(map) == [js |-> "Object", map |-> map]

(***************************************************************************)
(* serde_json::Map (a BTreeMap<String, Value>): entries ordered by key.    *)
(***************************************************************************)
\* the texts that occur as Object keys, in the byte order String compares by
KeyOrder ==
    << "0001-01-01 00:00:00", "1", "1.5", "False", "None", "True",
       "a", "b", "false", "null", "true" >>

KeyRank(s) == CHOOSE i \in 1..Len(KeyOrder) : KeyOrder[i] = s

map_new == <<>>

map_keys(map) == {map[i][1] : i \in 1..Len(map)}

map_get(map, k) == map[CHOOSE i \in 1..Len(map) : map[i][1] = k][2]

\* the entry (k, v) put at its place in key order, any entry of the same key dropped
map_put(map, k, v) ==
    LET lo == SelectSeq(map, LAMBDA e : KeyRank(e[1]) < KeyRank(k))
        hi == SelectSeq(map, LAMBDA e : KeyRank(e[1]) > KeyRank(k))
    IN  lo \o << <<k, v>> >> \o hi

\* Map::insert: the value of a key already present is replaced
map_insert(map, k, v) == map_put(map, k, v)

(***************************************************************************)
(* serde_json::Number.                                                     *)
(***************************************************************************)
\* serde_json::value::to_value of a u64
to_value_u64(mag) == Ok(Number(PosInt(mag)))

\* serde_json::value::to_value of an i64: negative values are NegInt, the others PosInt
to_value_i64(n) == Ok(Number(IF n.neg THEN NegInt(n.mag) ELSE PosInt(n.mag)))

\* Number::from_f64: None unless the float is finite
from_f64(f) == IF f.c = "finite" THEN Some(Float(f)) ELSE None

as_u64(x) == IF x.k = "PosInt" THEN Some(x.mag) ELSE None

as_i64(x) ==
    CASE x.k = "PosInt" -> IF MagLE(x.mag, I64_MAX) THEN Some([neg |-> FALSE, mag |-> x.mag])
                                                    ELSE None
      [] x.k = "NegInt" -> Some([neg |-> TRUE, mag |-> x.mag])
      [] x.k = "Float"  -> None

\* as_f64 answers for all three subkinds (an integer is widened to the float of its value)
as_f64(x) ==
    IF x.k = "Float" THEN Some(x.f) ELSE Some(F64(x.k = "NegInt", x.mag, FALSE))

(***************************************************************************)
(* The host object system, as far as the conversions call into it.         *)
(***************************************************************************)
\* the traceback object of an exception the host raised
Traceback == [py |-> "traceback"]

\* an exception raised inside the host (it carries a traceback)
Raised(ptype, msg) == PyErr(ptype, Some(PyStr(msg, TRUE)), Some(Traceback))

\* obj == py.None(): identity with the None singleton
is_None(obj) == obj.py = "NoneType"

\* obj.cast_as::<T>(py).is_ok(): the object is an instance of T
cast_as(obj, T) == obj.py = T

\* PyString::to_string: the text as UTF-8, an error when the content is not UTF-8
to_string(s) ==
    IF s.utf8 THEN Ok(s.s) ELSE Err(Raised("UnicodeDecodeError", "invalid utf-8"))

\* extract::<String>: a text object whose content is UTF-8
extract_String(obj) ==
    IF cast_as(obj, "str") THEN to_string(obj) ELSE Err(Raised("TypeError", "not str"))

\* extract::<bool>: a bool object and nothing else
extract_bool(obj) ==
    IF cast_as(obj, "bool") THEN Ok(obj.b) ELSE Err(Raised("TypeError", "not bool"))

\* the integer the host's int() gives for the object: bool is an int, a float is truncated
py_long(obj) ==
    CASE obj.py = "int"  -> Ok([neg |-> obj.neg, mag |-> obj.mag])
      [] obj.py = "bool" -> Ok([neg |-> FALSE, mag |-> IF obj.b THEN <<1>> ELSE <<0>>])
      [] obj.py = "float" /\ obj.f.c = "finite" ->
            Ok([neg |-> obj.f.neg /\ obj.f.whole # <<0>>, mag |-> obj.f.whole])
      [] OTHER -> Err(Raised("TypeError", "not a number"))

\* extract::<u64>: the integer, when it lies in 0 ..= u64::MAX
extract_u64(obj) ==
    LET n == py_long(obj)
    IN  IF n.ok /\ ~n.val.neg /\ MagLE(n.val.mag, U64_MAX)
        THEN Ok(n.val.mag)
        ELSE Err(Raised("OverflowError", "not a u64"))

\* extract::<i64>: the integer, when it lies in i64::MIN ..= i64::MAX
extract_i64(obj) ==
    LET n == py_long(obj)
    IN  IF n.ok /\ MagLE(n.val.mag, IF n.val.neg THEN I64_MIN_MAG ELSE I64_MAX)
        THEN Ok(n.val)
        ELSE Err(Raised("OverflowError", "not an i64"))

\* the decimal text of a float
f64_text(f) ==
    CASE f.c = "nan" -> "nan"
      [] f.c = "inf" -> IF f.neg THEN "-inf" ELSE "inf"
      [] f.c = "finite" -> (IF f.neg THEN "-" ELSE "") \o DigitsText(f.whole)
                               \o (IF f.half THEN ".5" ELSE ".0")

\* obj.str(py): the host's str() of a scalar; it fails when the object's __str__ raises
py_str(obj) ==
    CASE obj.py = "str"      -> Ok(obj)
      [] obj.py = "int"      -> Ok(PyStr((IF obj.neg THEN "-" ELSE "") \o DigitsText(obj.mag), TRUE))
      [] obj.py = "float"    -> Ok(PyStr(f64_text(obj.f), TRUE))
      [] obj.py = "bool"     -> Ok(PyStr(IF obj.b THEN "True" ELSE "False", TRUE))
      [] obj.py = "NoneType" -> Ok(PyStr("None", TRUE))
      [] obj.py = "object"   -> obj.str

\* obj.repr(py): the host's repr() of a scalar
py_repr(obj) ==
    CASE obj.py = "str"    -> Ok(PyStr("'" \o obj.s \o "'", TRUE))
      [] obj.py = "object" -> obj.repr
      [] OTHER             -> py_str(obj)

\* obj.get_type(py).name(py)
type_name(obj) == IF obj.py = "object" THEN obj.type_name ELSE obj.py

(***************************************************************************)
(* JsonError and JsonError::to_pyerr.                                      *)
(***************************************************************************)
PythonError(err) == [e |-> "PythonError", err |-> err]

SerdeJsonError == [e |-> "SerdeJsonError"]

\* TypeError(type_name, repr): repr is a PyResult<String>
TypeError(name, repr) == [e |-> "TypeError", type_name |-> name, repr |-> repr]

DictKeyNotString(obj) == [e |-> "DictKeyNotString", obj |-> obj]

InvalidFloat == [e |-> "InvalidFloat"]

ImpossibleNumber == [e |-> "ImpossibleNumber"]

\* a PyErr built by to_pyerr: the type, a fresh message, no traceback
NewPyErr(ptype, msg) == PyErr(ptype, Some(PyStr(msg, TRUE)), None)

\* the TypeError arm written so that it always formats a message
type_error_to_pyerr_always_message(repr) ==
    NewPyErr("TypeError",
             (IF repr.ok THEN repr.val ELSE "<unprintable>") \o " is not JSON serializable")

\* the JsonError::TypeError arm of to_pyerr
type_error_to_pyerr(repr) ==
    IF repr.ok
    THEN NewPyErr("TypeError", repr.val \o " is not JSON serializable")
    ELSE repr.err

to_pyerr(self) ==
    CASE self.e = "PythonError"      -> self.err
      [] self.e = "SerdeJsonError"   -> NewPyErr("RuntimeError", "serde_json error")
      [] self.e = "TypeError"        -> type_error_to_pyerr(self.repr)
      [] self.e = "DictKeyNotString" -> NewPyErr("TypeError", "keys must be a string")
      [] self.e = "InvalidFloat"     ->
            NewPyErr("ValueError", "inf and nan are not supported in JSON")
      [] self.e = "ImpossibleNumber" ->
            NewPyErr("ValueError", "a value was somehow not an integer or float")

(***************************************************************************)
(* to_json.  A conversion returns [res, n]: its Result and the number of   *)
(* to_json invocations it made, itself included.                           *)
(***************************************************************************)
\* the fallback of to_json: no shape matched; repr(obj).and_then(to_string) is carried
not_serializable(obj) ==
    LET repr == py_repr(obj)
    IN  Err(TypeError(type_name(obj), IF repr.ok THEN to_string(repr.val) ELSE repr))

\* the float arm without the finiteness test
float_to_json_unchecked(obj) == Ok(Number(Float(obj.f)))

\* the float arm of to_json
float_to_json(obj) ==
    LET n == from_f64(obj.f)
    IN  IF n # None THEN Ok(Number(n[1])) ELSE Err(InvalidFloat)

\* the scalar chain with the integer extractions moved ahead of text, bool and float
scalar_to_json_integers_first(obj) ==
    IF extract_u64(obj).ok THEN to_value_u64(extract_u64(obj).val)
    ELSE IF extract_i64(obj).ok THEN to_value_i64(extract_i64(obj).val)
    ELSE IF extract_String(obj).ok THEN Ok(String(extract_String(obj).val))
    ELSE IF extract_bool(obj).ok THEN Ok(Bool(extract_bool(obj).val))
    ELSE IF cast_as(obj, "float") THEN float_to_json(obj)
    ELSE IF is_None(obj) THEN Ok(Null)
    ELSE not_serializable(obj)

\* the scalar chain without the signed extraction
scalar_to_json_no_i64(obj) ==
    IF extract_String(obj).ok THEN Ok(String(extract_String(obj).val))
    ELSE IF extract_bool(obj).ok THEN Ok(Bool(extract_bool(obj).val))
    ELSE IF cast_as(obj, "float") THEN float_to_json(obj)
    ELSE IF extract_u64(obj).ok THEN to_value_u64(extract_u64(obj).val)
    ELSE IF is_None(obj) THEN Ok(Null)
    ELSE not_serializable(obj)

\* to_json past the container casts: text, bool, float, u64, i64, None, else the failure
scalar_to_json(obj) ==
    IF extract_String(obj).ok THEN Ok(String(extract_String(obj).val))
    ELSE IF extract_bool(obj).ok THEN Ok(Bool(extract_bool(obj).val))
    ELSE IF cast_as(obj, "float") THEN float_to_json(obj)
    ELSE IF extract_u64(obj).ok THEN to_value_u64(extract_u64(obj).val)
    ELSE IF extract_i64(obj).ok THEN to_value_i64(extract_i64(obj).val)
    ELSE IF is_None(obj) THEN Ok(Null)
    ELSE not_serializable(obj)

\* key coercion that accepts text keys only
dict_key_text_only(key_obj) ==
    IF cast_as(key_obj, "str")
    THEN (LET s == to_string(key_obj)
          IN  IF s.ok THEN Ok(s.val) ELSE Err(PythonError(s.err)))
    ELSE Err(DictKeyNotString(key_obj))

\* key coercion without the None and bool tests: every key goes through str()
dict_key_str_only(key_obj) ==
    IF py_str(key_obj).ok
    THEN (LET s == to_string(py_str(key_obj).val)
          IN  IF s.ok THEN Ok(s.val) ELSE Err(PythonError(s.err)))
    ELSE Err(DictKeyNotString(key_obj))

\* the key of a dict entry as text: None, then bool, then str(), else the failure
dict_key(key_obj) ==
    IF is_None(key_obj) THEN Ok("null")
    ELSE IF extract_bool(key_obj).ok
         THEN Ok(IF extract_bool(key_obj).val THEN "true" ELSE "false")
    ELSE IF py_str(key_obj).ok
         THEN (LET s == to_string(py_str(key_obj).val)
               IN  IF s.ok THEN Ok(s.val) ELSE Err(PythonError(s.err)))
    ELSE Err(DictKeyNotString(key_obj))

RECURSIVE to_json(_)
RECURSIVE collect(_, _, _, _)
RECURSIVE collect_no_abort(_, _, _, _, _)
RECURSIVE dict_to_json(_, _, _, _)
RECURSIVE dict_to_json_keep_first(_, _, _, _)

\* a collect that converts every element and reports the last failure
collect_no_abort(elems, i, acc, n, failed) ==
    IF i > Len(elems)
    THEN [res |-> IF failed = None THEN Ok(Array(acc)) ELSE Err(failed[1]), n |-> n]
    ELSE LET r == to_json(elems[i])
         IN  IF r.res.ok
             THEN collect_no_abort(elems, i + 1, Append(acc, r.res.val), n + r.n, failed)
             ELSE collect_no_abort(elems, i + 1, acc, n + r.n, Some(r.res.err))

collect_all(elems, i, acc, n) == collect_no_abort(elems, i, acc, n, None)

\* iter().map(to_json).collect() into an Array: elements in order, stopping at the first Err
collect(elems, i, acc, n) ==
    IF i > Len(elems) THEN [res |-> Ok(Array(acc)), n |-> n]
    ELSE LET r == to_json(elems[i])
         IN  IF r.res.ok
             THEN collect(elems, i + 1, Append(acc, r.res.val), n + r.n)
             ELSE [res |-> Err(r.res.err), n |-> n + r.n]

\* the dict loop inserting a key only when the map does not hold it yet
dict_to_json_keep_first(items, i, map, n) ==
    IF i > Len(items) THEN [res |-> Ok(Object(map)), n |-> n]
    ELSE LET key == dict_key(items[i][1])
         IN  IF ~key.ok THEN [res |-> Err(key.err), n |-> n]
             ELSE LET v == to_json(items[i][2])
                  IN  IF ~v.res.ok THEN [res |-> Err(v.res.err), n |-> n + v.n]
                      ELSE dict_to_json_keep_first(items, i + 1,
                               IF key.val \in map_keys(map) THEN map
                               ELSE map_insert(map, key.val, v.res.val), n + v.n)

\* the dict arm: for each item the key, then the value, then map.insert
dict_to_json(items, i, map, n) ==
    IF i > Len(items) THEN [res |-> Ok(Object(map)), n |-> n]
    ELSE LET key == dict_key(items[i][1])
         IN  IF ~key.ok THEN [res |-> Err(key.err), n |-> n]
             ELSE LET v == to_json(items[i][2])
                  IN  IF ~v.res.ok THEN [res |-> Err(v.res.err), n |-> n + v.n]
                      ELSE dict_to_json(items, i + 1,
                                        map_insert(map, key.val, v.res.val), n + v.n)

to_json(obj) ==
    IF cast_as(obj, "dict") THEN dict_to_json(obj.items, 1, map_new, 1)
    ELSE IF cast_as(obj, "list") THEN collect(obj.elems, 1, <<>>, 1)
    ELSE IF cast_as(obj, "tuple") THEN collect(obj.elems, 1, <<>>, 1)
    ELSE [res |-> scalar_to_json(obj), n |-> 1]

(***************************************************************************)
(* from_json.  A conversion returns [res, n]: its Result and the number of *)
(* from_json invocations it made, itself included.                         *)
(***************************************************************************)
\* PyDict::set_item under a text key: the host's error, or the items with the key set
set_item(items, key, value) ==
    IF key \in hostRejects
    THEN Err(Raised("MemoryError", key))
    ELSE LET k == PyStr(key, TRUE)
         IN  Ok(IF \E j \in 1..Len(items) : items[j][1] = k
                THEN [j \in 1..Len(items) |->
                          IF items[j][1] = k THEN <<k, value>> ELSE items[j]]
                ELSE Append(items, <<k, value>>))

\* the Number arm without its float branch
number_from_json_no_float(x) ==
    IF as_u64(x) # None THEN Ok(PyInt(FALSE, as_u64(x)[1]))
    ELSE IF as_i64(x) # None THEN Ok(PyInt(as_i64(x)[1].neg, as_i64(x)[1].mag))
    ELSE Err(ImpossibleNumber)

\* the Number arm asking as_f64 first
number_from_json_float_first(x) ==
    IF as_f64(x) # None THEN Ok(PyFloat(as_f64(x)[1]))
    ELSE IF as_u64(x) # None THEN Ok(PyInt(FALSE, as_u64(x)[1]))
    ELSE IF as_i64(x) # None THEN Ok(PyInt(as_i64(x)[1].neg, as_i64(x)[1].mag))
    ELSE Err(ImpossibleNumber)

\* the Number arm: as_u64, then as_i64, then as_f64, else ImpossibleNumber
number_from_json(x) ==
    IF as_u64(x) # None THEN Ok(PyInt(FALSE, as_u64(x)[1]))
    ELSE IF as_i64(x) # None THEN Ok(PyInt(as_i64(x)[1].neg, as_i64(x)[1].mag))
    ELSE IF as_f64(x) # None THEN Ok(PyFloat(as_f64(x)[1]))
    ELSE Err(ImpossibleNumber)

RECURSIVE from_json(_)
RECURSIVE array_from_json(_, _, _, _)
RECURSIVE object_from_json(_, _, _, _)

\* the Array arm: each item in order into elements, `?` on the first failure
array_from_json(vec, i, elements, n) ==
    IF i > Len(vec) THEN [res |-> Ok(PyList(elements)), n |-> n]
    ELSE LET r == from_json(vec[i])
         IN  IF r.res.ok
             THEN array_from_json(vec, i + 1, Append(elements, r.res.val), n + r.n)
             ELSE [res |-> Err(r.res.err), n |-> n + r.n]

\* the Object arm: each entry in key order, the value decoded, then set_item
object_from_json(map, i, dict, n) ==
    IF i > Len(map) THEN [res |-> Ok(PyDict(dict)), n |-> n]
    ELSE LET r == from_json(map[i][2])
         IN  IF ~r.res.ok THEN [res |-> Err(r.res.err), n |-> n + r.n]
             ELSE LET d == set_item(dict, map[i][1], r.res.val)
                  IN  IF ~d.ok THEN [res |-> Err(PythonError(d.err)), n |-> n + r.n]
                      ELSE object_from_json(map, i + 1, d.val, n + r.n)

from_json(json) ==
    CASE json.js = "Number" -> [res |-> number_from_json(json.n), n |-> 1]
      [] json.js = "String" -> [res |-> Ok(PyStr(json.s, TRUE)), n |-> 1]
      [] json.js = "Bool"   -> [res |-> Ok(PyBool(json.b)), n |-> 1]
      [] json.js = "Array"  -> array_from_json(json.vec, 1, <<>>, 1)
      [] json.js = "Object" -> object_from_json(json.map, 1, <<>>, 1)
      [] json.js = "Null"   -> [res |-> Ok(PyNone), n |-> 1]

(***************************************************************************)
(* The values a caller passes in.                                          *)
(***************************************************************************)
SeqsUpTo(S, n) == UNION {[1..k -> S] : k \in 0..n}

\* datetime.datetime.min, the unserializable object of the tests
DateTime ==
    PyOther("datetime.datetime", Ok(PyStr("datetime.datetime(1, 1, 1, 0, 0)", TRUE)),
            Ok(PyStr("0001-01-01 00:00:00", TRUE)))

\* an object whose __repr__ and __str__ raise
Broken ==
    PyOther("Broken", Err(Raised("RuntimeError", "repr failed")),
            Err(Raised("RuntimeError", "str failed")))

\* a text object whose content is not UTF-8
BadStr == PyStr("xFF", FALSE)

PyInts ==
    { PyInt(FALSE, <<0>>), PyInt(FALSE, <<1>>), PyInt(FALSE, <<5>>), PyInt(FALSE, <<6>>),
      PyInt(FALSE, I64_MAX), PyInt(FALSE, I64_MIN_MAG), PyInt(FALSE, U64_MAX),
      PyInt(FALSE, TWO_64), PyInt(TRUE, <<1>>), PyInt(TRUE, I64_MIN_MAG),
      PyInt(TRUE, I64_MIN_MAG_1) }

PyFloats ==
    { PyFloat(F64(FALSE, <<1>>, FALSE)), PyFloat(F64(FALSE, <<1>>, TRUE)),
      PyFloat(F64(TRUE, <<1>>, TRUE)), PyFloat(F64_INF(FALSE)), PyFloat(F64_INF(TRUE)),
      PyFloat(F64_NAN) }

PyStrs == { PyStr("a", TRUE), PyStr("null", TRUE), PyStr("true", TRUE), PyStr("1", TRUE), BadStr }

NativeScalars ==
    {PyNone, PyBool(TRUE), PyBool(FALSE), DateTime, Broken} \cup PyInts \cup PyFloats \cup PyStrs

\* the elements of the lists and tuples drawn
NativeElems ==
    { PyNone, PyBool(TRUE), PyInt(FALSE, <<5>>), PyInt(TRUE, <<1>>), PyStr("a", TRUE),
      PyFloat(F64(FALSE, <<1>>, TRUE)), PyFloat(F64_INF(FALSE)), DateTime }

\* the keys of the mappings drawn
NativeKeys ==
    { PyNone, PyBool(TRUE), PyBool(FALSE), PyStr("null", TRUE),
      PyStr("true", TRUE), BadStr, PyInt(FALSE, <<1>>), PyStr("1", TRUE),
      PyFloat(F64(FALSE, <<1>>, TRUE)), DateTime, Broken }

\* the values of the mappings drawn
NativeDictValues ==
    { PyInt(FALSE, <<5>>), PyInt(FALSE, <<6>>), PyFloat(F64_INF(FALSE)) }

\* the number a bool, int or finite float key stands for, by which the host compares keys
key_number(obj) ==
    CASE obj.py = "float" /\ obj.f.c = "finite" ->
            Some([neg |-> obj.f.neg /\ (obj.f.whole # <<0>> \/ obj.f.half),
                  whole |-> obj.f.whole, half |-> obj.f.half])
      [] obj.py \in {"int", "bool"} ->
            Some([neg |-> py_long(obj).val.neg, whole |-> py_long(obj).val.mag, half |-> FALSE])
      [] OTHER -> None

\* two keys the host's mapping takes for one
same_key(a, b) == a = b \/ (key_number(a) # None /\ key_number(a) = key_number(b))

NativeDicts ==
    { PyDict(items) : items \in
        { s \in SeqsUpTo(NativeKeys \X NativeDictValues, MaxLen) :
            \A i, j \in 1..Len(s) : i # j => ~same_key(s[i][1], s[j][1]) } }

NativeInputs ==
    NativeScalars
      \cup { PyList(es) : es \in SeqsUpTo(NativeElems, MaxLen) }
      \cup { PyTuple(es) : es \in SeqsUpTo(NativeElems, MaxLen) }
      \cup NativeDicts

\* what a caller builds around a native value
NativeWraps(x) ==
    { PyTuple(<<PyInt(FALSE, <<5>>), x>>), PyList(<<x, PyFloat(F64_INF(FALSE))>>),
      PyDict(<< <<PyStr("b", TRUE), PyInt(FALSE, <<6>>)>>, <<PyNone, x>> >>) }

JsonNumbers ==
    { Number(PosInt(<<0>>)), Number(PosInt(<<1>>)), Number(PosInt(<<5>>)),
      Number(PosInt(I64_MAX)), Number(PosInt(I64_MIN_MAG)), Number(PosInt(U64_MAX)),
      Number(NegInt(<<1>>)), Number(NegInt(I64_MIN_MAG)),
      Number(Float(F64(FALSE, <<1>>, FALSE))), Number(Float(F64(FALSE, <<1>>, TRUE))),
      Number(Float(F64(TRUE, <<1>>, TRUE))) }

JsonScalars ==
    {Null, Bool(TRUE), Bool(FALSE), String("a"), String("null"), String("1")} \cup JsonNumbers

\* the elements of the Arrays drawn
JsonElems ==
    { Null, Bool(TRUE), String("a"), Number(PosInt(<<1>>)), Number(NegInt(<<1>>)),
      Number(Float(F64(FALSE, <<1>>, FALSE))) }

\* the keys and values of the Objects drawn
JsonKeys == {"1", "a", "b", "null"}

JsonObjectValues == { Null, String("a"), Number(PosInt(<<5>>)) }

JsonObjects ==
    { Object(m) : m \in
        { s \in SeqsUpTo(JsonKeys \X JsonObjectValues, MaxLen) :
            \A i, j \in 1..Len(s) : i < j => KeyRank(s[i][1]) < KeyRank(s[j][1]) } }

JsonInputs ==
    JsonScalars \cup { Array(v) : v \in SeqsUpTo(JsonElems, MaxLen) } \cup JsonObjects

\* what a caller builds around a JSON value
JsonWraps(x) ==
    { Array(<<x>>), Array(<<Null, x>>), Object(<< <<"a", x>> >>),
      Object(<< <<"a", x>>, <<"b", Number(PosInt(<<5>>))>> >>),
      Object(<< <<"a", Number(PosInt(<<5>>))>>, <<"b", x>> >>) }

\* the failures a caller hands to to_pyerr directly (as the tests do)
ErrorInputs ==
    { SerdeJsonError, ImpossibleNumber, InvalidFloat, DictKeyNotString(PyNone),
      PythonError(NewPyErr("TypeError", "keys must be a string")),
      TypeError("datetime.datetime", Err(NewPyErr("TypeError", "keys must be a string"))),
      TypeError("datetime.datetime", Ok("datetime.datetime(1, 1, 1, 0, 0)")) }

\* the sets of keys under which the host refuses an insertion
RejectSets == { {}, {"b"}, {"a", "b"} }

IsNative(v) == "py" \in DOMAIN v

IsJson(v) == "js" \in DOMAIN v

IsError(v) == "e" \in DOMAIN v

Max(S) == CHOOSE m \in S : \A k \in S : k <= m

RECURSIVE Depth(_)
\* how deep containers nest in a value
Depth(v) ==
    CASE IsNative(v) /\ v.py \in {"list", "tuple"} ->
            1 + Max({0} \cup {Depth(v.elems[i]) : i \in 1..Len(v.elems)})
      [] IsNative(v) /\ v.py = "dict" ->
            1 + Max({0} \cup {Depth(v.items[i][2]) : i \in 1..Len(v.items)})
      [] IsJson(v) /\ v.js = "Array" ->
            1 + Max({0} \cup {Depth(v.vec[i]) : i \in 1..Len(v.vec)})
      [] IsJson(v) /\ v.js = "Object" ->
            1 + Max({0} \cup {Depth(v.map[i][2]) : i \in 1..Len(v.map)})
      [] OTHER -> 0

(***************************************************************************)
(* The state machine: a caller draws a value, may build containers around  *)
(* it, and calls to_json, from_json and to_pyerr.                          *)
(*   op      the last operation ("input" before any call)                  *)
(*   arg     the argument of the last operation (the input before any)     *)
(*   ret     what the last operation returned                              *)
(*   calls   the number of to_json / from_json invocations it made         *)
(*   origin  the value the caller started from                             *)
(*   hostRejects  the keys under which the host's set_item reports an error*)
(***************************************************************************)
Pending == [pending |-> TRUE]

Init ==
    /\ op = "input"
    /\ \/ arg \in NativeInputs /\ hostRejects = {}
       \/ arg \in JsonInputs /\ hostRejects \in RejectSets
       \/ arg \in ErrorInputs /\ hostRejects = {}
    /\ origin = arg
    /\ ret = Pending
    /\ calls = 0

\* the caller puts the value into a container
Nest ==
    /\ op = "input"
    /\ ~IsError(arg)
    /\ Depth(arg) < MaxDepth
    /\ arg' \in (IF IsNative(arg) THEN NativeWraps(arg) ELSE JsonWraps(arg))
    /\ origin' = arg'
    /\ UNCHANGED <<op, ret, calls, hostRejects>>

\* to_json(py, &obj), on the input or on what from_json of the input returned
ToJson ==
    /\ \/ op = "input" /\ IsNative(arg)
       \/ op = "from_json" /\ arg = origin /\ ret.ok
    /\ LET obj == IF op = "input" THEN arg ELSE ret.val
           r   == to_json(obj)
       IN  /\ arg' = obj
           /\ ret' = r.res
           /\ calls' = r.n
    /\ op' = "to_json"
    /\ UNCHANGED <<origin, hostRejects>>

\* from_json(py, json), on the input or on what to_json of the input returned
FromJson ==
    /\ \/ op = "input" /\ IsJson(arg)
       \/ op = "to_json" /\ arg = origin /\ ret.ok
    /\ LET json == IF op = "input" THEN arg ELSE ret.val
           r    == from_json(json)
       IN  /\ arg' = json
           /\ ret' = r.res
           /\ calls' = r.n
    /\ op' = "from_json"
    /\ UNCHANGED <<origin, hostRejects>>

\* err.to_pyerr(py), on a failure a conversion returned or one the caller made
ToPyerr ==
    /\ \/ op = "input" /\ IsError(arg)
       \/ op \in {"to_json", "from_json"} /\ ~ret.ok
    /\ LET self == IF op = "input" THEN arg ELSE ret.err
       IN  /\ arg' = self
           /\ ret' = to_pyerr(self)
    /\ op' = "to_pyerr"
    /\ UNCHANGED <<calls, origin, hostRejects>>

Next == Nest \/ ToJson \/ FromJson \/ ToPyerr

Spec == Init /\ [][Next]_vars

(***************************************************************************)
(* Properties.                                                             *)
(***************************************************************************)
Encoded == op = "to_json"

Decoded == op = "from_json"

\* C1: to_json of a native bool b is Bool(b), never a Number, although the host
\* would also extract b as a u64 and as an i64; no mapping, list, tuple or text
\* step matches a bool.
C1_BoolIsBool ==
    (Encoded /\ arg.py = "bool") =>
        /\ extract_u64(arg).ok /\ extract_i64(arg).ok
        /\ ~cast_as(arg, "dict") /\ ~cast_as(arg, "list") /\ ~cast_as(arg, "tuple")
        /\ ~extract_String(arg).ok
        /\ ret = Ok(Bool(arg.b))

C1_Witness ==
    Encoded /\ arg = PyBool(TRUE) /\ extract_u64(arg).ok /\ ret = Ok(Bool(TRUE))

\* the kinds of key the None test, the bool test and text extraction take
PlainKey(k) == k.py \in {"NoneType", "bool", "str"}

Coerced(k) ==
    CASE k.py = "NoneType" -> "null"
      [] k.py = "bool"     -> IF k.b THEN "true" ELSE "false"
      [] k.py = "str"      -> k.s

\* the mapping's result is an Object whose keys are exactly the coerced keys, each
\* holding the encoding of a value stored under a key coerced to it
ObjectOfCoercedKeys ==
    /\ ret.ok /\ ret.val.js = "Object"
    /\ map_keys(ret.val.map) = {Coerced(arg.items[i][1]) : i \in 1..Len(arg.items)}
    /\ \A e \in 1..Len(ret.val.map) :
           \E i \in 1..Len(arg.items) :
               /\ Coerced(arg.items[i][1]) = ret.val.map[e][1]
               /\ to_json(arg.items[i][2]).res = Ok(ret.val.map[e][2])
    /\ \A i \in 1..Len(arg.items) :
           (\A j \in 1..Len(arg.items) :
                j # i => Coerced(arg.items[j][1]) # Coerced(arg.items[i][1])) =>
               Ok(map_get(ret.val.map, Coerced(arg.items[i][1]))) = to_json(arg.items[i][2]).res

AllValuesEncode == \A i \in 1..Len(arg.items) : to_json(arg.items[i][2]).res.ok

\* C3 as stated: every mapping whose keys are all text, bool or None and whose
\* values all encode gives the Object of its coerced keys.
C3_PlainKeysAlwaysEncode ==
    (Encoded /\ arg.py = "dict" /\ AllValuesEncode
       /\ \A i \in 1..Len(arg.items) : PlainKey(arg.items[i][1])) =>
        ObjectOfCoercedKeys

\* C3 amended: every mapping whose keys are all None, bool or text that the host
\* hands out as UTF-8, and whose values all encode, gives an Object whose key
\* set is exactly the coerced keys (None "null", true "true", false "false", a
\* text its own text), each key holding the encoding of its value.
C3_Utf8PlainKeysEncode ==
    (Encoded /\ arg.py = "dict" /\ AllValuesEncode
       /\ \A i \in 1..Len(arg.items) :
              /\ PlainKey(arg.items[i][1])
              /\ arg.items[i][1].py = "str" => arg.items[i][1].utf8) =>
        ObjectOfCoercedKeys

C3_Witness ==
    /\ Encoded
    /\ arg = PyDict(<< <<PyNone, PyInt(FALSE, <<5>>)>>, <<PyBool(TRUE), PyInt(FALSE, <<6>>)>> >>)
    /\ ret = Ok(Object(<< <<"null", Number(PosInt(<<5>>))>>, <<"true", Number(PosInt(<<6>>))>> >>))

RECURSIVE JsonKeysOf(_)
\* every Object key occurring in a JSON value
JsonKeysOf(v) ==
    CASE v.js = "Array"  -> UNION {JsonKeysOf(v.vec[i]) : i \in 1..Len(v.vec)}
      [] v.js = "Object" -> map_keys(v.map) \cup UNION {JsonKeysOf(v.map[i][2]) : i \in 1..Len(v.map)}
      [] OTHER -> {}

\* no insertion the decoding of v makes is refused by the host
HostAccepts(v) == JsonKeysOf(v) \cap hostRejects = {}

\* C4: round trip.  For a JSON value v of finite numbers, text, bool, null, arrays
\* and objects, when no host primitive fails, from_json(v) succeeds and to_json of
\* its result is Ok(v): same structure, same numeric subkinds, same Array order.
C4_RoundTrip ==
    /\ (Decoded /\ arg = origin /\ HostAccepts(arg)) => ret.ok
    /\ (Encoded /\ IsJson(origin)) => ret = Ok(origin)

C4_Witness ==
    /\ Encoded
    /\ origin = Object(<< <<"a", Array(<<Number(NegInt(<<1>>)),
                                         Number(Float(F64(FALSE, <<1>>, FALSE)))>>)>>,
                          <<"b", Number(PosInt(<<5>>))>> >>)
    /\ ret = Ok(origin)

RECURSIVE HasNonFinite(_)
\* a Number holding an infinite or NaN float occurs somewhere in the JSON value
HasNonFinite(v) ==
    CASE v.js = "Number" -> v.n.k = "Float" /\ v.n.f.c # "finite"
      [] v.js = "Array"  -> \E i \in 1..Len(v.vec) : HasNonFinite(v.vec[i])
      [] v.js = "Object" -> \E i \in 1..Len(v.map) : HasNonFinite(v.map[i][2])
      [] OTHER -> FALSE

\* C5: to_json of a native float f is Number(Float(f)) when f is finite and the
\* failure InvalidFloat when f is infinite or NaN; so no value to_json returns
\* holds a non-finite float at any depth.
C5_FiniteFloatsOnly ==
    /\ (Encoded /\ arg.py = "float") =>
           ret = IF arg.f.c = "finite" THEN Ok(Number(Float(arg.f))) ELSE Err(InvalidFloat)
    /\ (Encoded /\ ret.ok) => ~HasNonFinite(ret.val)

C5_Witness ==
    Encoded /\ arg = PyFloat(F64_NAN) /\ ret = Err(InvalidFloat)

\* C6: to_json of a native integer n (not a bool) is the unsigned Number n when
\* 0 <= n <= 2^64 - 1 and the signed Number n when -2^63 <= n < 0.
C6_IntegerSubkinds ==
    (Encoded /\ arg.py = "int") =>
        /\ (~arg.neg /\ MagLE(arg.mag, U64_MAX)) => ret = Ok(Number(PosInt(arg.mag)))
        /\ (arg.neg /\ MagLE(arg.mag, I64_MIN_MAG)) => ret = Ok(Number(NegInt(arg.mag)))

C6_Witness ==
    /\ Encoded
    /\ arg = PyInt(TRUE, I64_MIN_MAG)
    /\ ~extract_u64(arg).ok
    /\ ret = Ok(Number(NegInt(I64_MIN_MAG)))

\* C7: from_json does not fail on the structure of its input: when the host
\* refuses no insertion it succeeds, it never returns ImpossibleNumber, and a
\* failure it returns is PythonError wrapping the error set_item raised, unchanged.
C7_DecodeFailsOnlyOnHostError ==
    Decoded =>
        /\ HostAccepts(arg) => ret.ok
        /\ ~ret.ok =>
               /\ ret.err.e = "PythonError"
               /\ \E k \in JsonKeysOf(arg) \cap hostRejects :
                      ret.err.err = set_item(<<>>, k, PyNone).err

C7_Witness ==
    /\ Decoded
    /\ arg = Array(<<Null, Object(<< <<"a", Number(Float(F64(FALSE, <<1>>, TRUE)))>>,
                                     <<"b", Number(PosInt(<<5>>))>> >>)>>)
    /\ hostRejects = {"b"}
    /\ ret = Err(PythonError(Raised("MemoryError", "b")))

\* the message to_pyerr gives a representation
NotSerializableMessage(repr) == repr \o " is not JSON serializable"

\* C8: to_pyerr of JsonError::TypeError is, when the representation is present,
\* a TypeError without traceback whose message is "<repr> is not JSON
\* serializable", and, when repr itself failed, that secondary host error; to_json
\* of a value of no encodable shape fails with TypeError carrying the value's type
\* name and the outcome of repr.
C8_NotRepresentable ==
    /\ (op = "to_pyerr" /\ arg.e = "TypeError") =>
           IF arg.repr.ok
           THEN /\ ret.ptype = "TypeError"
                /\ ret.pvalue = Some(PyStr(NotSerializableMessage(arg.repr.val), TRUE))
                /\ ret.ptraceback = None
           ELSE ret = arg.repr.err
    /\ (Encoded /\ arg.py = "object") =>
           ret = Err(TypeError(arg.type_name,
                               IF arg.repr.ok THEN Ok(arg.repr.val.s) ELSE Err(arg.repr.err)))
    /\ (op = "to_pyerr" /\ origin = DateTime) =>
           ret.pvalue[1].s = "datetime.datetime(1, 1, 1, 0, 0) is not JSON serializable"

C8_Witness ==
    /\ op = "to_pyerr"
    /\ origin = Broken
    /\ arg = TypeError("Broken", Err(Raised("RuntimeError", "repr failed")))
    /\ ret = Raised("RuntimeError", "repr failed")

RECURSIVE SumCalls(_, _)
\* the invocations made by the first k conversions of rs
SumCalls(rs, k) == IF k = 0 THEN 0 ELSE rs[k].n + SumCalls(rs, k - 1)

\* the first index at which the sequence of booleans holds TRUE, 0 when there is none
FirstIndex(bs) ==
    IF \E i \in 1..Len(bs) : bs[i]
    THEN CHOOSE i \in 1..Len(bs) : bs[i] /\ \A j \in 1..(i - 1) : ~bs[j]
    ELSE 0

\* to_json of a list or tuple one of whose elements fails
EncodeSeqAborts ==
    LET rs == [i \in 1..Len(arg.elems) |-> to_json(arg.elems[i])]
        f  == FirstIndex([i \in 1..Len(rs) |-> ~rs[i].res.ok])
    IN  f # 0 => /\ ret = Err(rs[f].res.err)
                 /\ calls = 1 + SumCalls(rs, f)

\* to_json of a mapping one of whose keys or values fails
EncodeDictAborts ==
    LET ks == [i \in 1..Len(arg.items) |-> dict_key(arg.items[i][1])]
        vs == [i \in 1..Len(arg.items) |-> to_json(arg.items[i][2])]
        f  == FirstIndex([i \in 1..Len(ks) |-> ~ks[i].ok \/ ~vs[i].res.ok])
    IN  f # 0 => IF ~ks[f].ok
                 THEN ret = Err(ks[f].err) /\ calls = 1 + SumCalls(vs, f - 1)
                 ELSE ret = Err(vs[f].res.err) /\ calls = 1 + SumCalls(vs, f)

\* from_json of an Array one of whose elements fails
DecodeArrayAborts ==
    LET rs == [i \in 1..Len(arg.vec) |-> from_json(arg.vec[i])]
        f  == FirstIndex([i \in 1..Len(rs) |-> ~rs[i].res.ok])
    IN  f # 0 => /\ ret = Err(rs[f].res.err)
                 /\ calls = 1 + SumCalls(rs, f)

\* from_json of an Object one of whose values fails or whose insertion is refused
DecodeObjectAborts ==
    LET vs == [i \in 1..Len(arg.map) |-> from_json(arg.map[i][2])]
        f  == FirstIndex([i \in 1..Len(vs) |-> ~vs[i].res.ok \/ arg.map[i][1] \in hostRejects])
    IN  f # 0 => /\ ret = IF ~vs[f].res.ok
                          THEN Err(vs[f].res.err)
                          ELSE Err(PythonError(Raised("MemoryError", arg.map[f][1])))
                 /\ calls = 1 + SumCalls(vs, f)

\* C9: eager abort, no partial result.  When an element of a list, tuple or
\* mapping fails to encode, or a key fails to coerce, to_json of the container
\* returns the failure of the first failing element in iteration order, unchanged
\* (never an Array or Object of the elements that did convert), converts no later
\* element, and within one entry reports the key's failure rather than the
\* value's.  from_json over Array and Object likewise returns the first failure
\* (an entry's value is decoded, then inserted) and decodes nothing after it.
C9_EagerAbort ==
    /\ (Encoded /\ arg.py \in {"list", "tuple"}) => EncodeSeqAborts
    /\ (Encoded /\ arg.py = "dict") => EncodeDictAborts
    /\ (Decoded /\ arg.js = "Array") => DecodeArrayAborts
    /\ (Decoded /\ arg.js = "Object") => DecodeObjectAborts

C9_Witness ==
    /\ Encoded
    /\ arg = PyList(<<PyDict(<< <<Broken, PyFloat(F64_INF(FALSE))>> >>), PyFloat(F64_INF(FALSE))>>)
    /\ ret = Err(DictKeyNotString(Broken))
    /\ calls = 2

\* two entries of the mapping whose keys coerce to one text
Collides(i, j) ==
    i < j /\ dict_key(arg.items[i][1]).val = dict_key(arg.items[j][1]).val

\* C10: when distinct keys of a mapping coerce to the same text (None and "null",
\* true and "true"), to_json does not fail for it: the Object has one entry for
\* that text, holding the encoding of the entry visited last, so it has unique
\* keys and fewer entries than the mapping.
C10_CollisionLastWins ==
    (/\ Encoded /\ arg.py = "dict"
     /\ \A i \in 1..Len(arg.items) :
            dict_key(arg.items[i][1]).ok /\ to_json(arg.items[i][2]).res.ok
     /\ \E i, j \in 1..Len(arg.items) : Collides(i, j)) =>
        /\ ret.ok /\ ret.val.js = "Object"
        /\ Len(ret.val.map) < Len(arg.items)
        /\ \A a, b \in 1..Len(ret.val.map) : a # b => ret.val.map[a][1] # ret.val.map[b][1]
        /\ \A i \in 1..Len(arg.items) :
               (\A j \in 1..Len(arg.items) : ~Collides(i, j)) =>
                   Ok(map_get(ret.val.map, dict_key(arg.items[i][1]).val))
                       = to_json(arg.items[i][2]).res

C10_Witness ==
    /\ Encoded
    /\ arg = PyDict(<< <<PyNone, PyInt(FALSE, <<5>>)>>, <<PyStr("null", TRUE), PyInt(FALSE, <<6>>)>> >>)
    /\ ret = Ok(Object(<< <<"null", Number(PosInt(<<6>>))>> >>))

====
